---- MODULE Spec2Model ----
(***************************************************************************)
(* A model of the tama-tools chain access layer:                           *)
(*   - findTokenCreationBlock  (token-find-creation-block script and       *)
(*                              test-token-info-optimized.ts)              *)
(*   - getTokenPoolInfo, getTokenMetadata, getCompleteTokenInfo            *)
(*                             (token-info/getTokenInfo.ts)                *)
(*   - the proposed getTokenMetadata with a fromBlock parameter            *)
(*                             (token-info/proposed-updates.md)            *)
(*   - getCompleteTokenInfoOptimized (test-token-info-optimized.ts)        *)
(*   - createTokenOnContract   (token-creation/createToken.ts and the      *)
(*                              standalone snippet)                        *)
(*   - uploadImageToIPFS, createTokenWithImage, parseBlockchainError,      *)
(*     parseUploadError        (token-creation, utils/errorHandling.ts)    *)
(* The chain (block height, deployed code, event logs, pool struct,        *)
(* creation fee, receipts) is the environment.                             *)
(***************************************************************************)
EXTENDS Integers, Sequences, FiniteSets, TLC

(***************************************************************************)
(* Program constants                                                       *)
(***************************************************************************)
\* getTokenMetadata looks back this many blocks from the current block.
LOOKBACK == 10000

\* The RPC endpoint serves at most this many blocks per getLogs request.
MAX_BLOCK_RANGE == 500

\* The proposed getTokenMetadata keeps toBlock within fromBlock + 499.
PROPOSED_WINDOW == 499

(***************************************************************************)
(* Bounds of the model                                                     *)
(***************************************************************************)
\* Chain heights 0..SmallMax are explored exhaustively.
SmallMax == 4

\* Offsets explored above the two thresholds MAX_BLOCK_RANGE and LOOKBACK.
MaxOff == 1

\* Transport failures the provider may inject into one binary search.
MaxFail == 2

\* Matching TokenCreated events on the chain.
MaxEvents == 2

(***************************************************************************)
(* Values                                                                  *)
(***************************************************************************)
\* `null` / `undefined` for a block number.
NoBlock == -1

Max(a, b) == IF a >= b THEN a ELSE b

Min(a, b) == IF a <= b THEN a ELSE b

\* Block heights the model draws chain heights and creation blocks from.
Grid ==
  (0..SmallMax)
    \cup {MAX_BLOCK_RANGE + d : d \in 0..MaxOff}
    \cup {LOOKBACK + d : d \in 0..MaxOff}

\* Tasks: concurrent invocations of findTokenCreationBlock.
Tasks == {1, 2}

(***************************************************************************)
(* The chain seen through the provider                                     *)
(***************************************************************************)
\* provider.getCode(address, block) !== '0x' for an address whose code was
\* deployed at block k (k > head: never deployed).
HasCodeAt(k, block) == block >= k

VARIABLES
  head,         \* provider.getBlockNumber()
  chainEvents,  \* TokenCreated logs of the token, ascending by block
  chainPool,    \* pools_(token) on the main contract
  fs,           \* per task: the locals of findTokenCreationBlock
  rd,           \* the locals of the token-info call in progress
  chainFee,     \* creationFee_() on the main contract
  harness,      \* the inputs and receipts this behaviour draws from
  ln,           \* the locals of the createTokenOnContract call in progress
  up,           \* the locals of the uploadImageToIPFS call in progress
  wf,           \* the locals of the createTokenWithImage call in progress
  cl            \* a raw error and what the two parsers make of it

readerVars == <<head, chainEvents, chainPool, fs, rd>>

launchVars == <<chainFee, harness, ln>>

flowVars == <<up, wf, cl>>

vars == <<head, chainEvents, chainPool, fs, rd, chainFee, harness, ln, up, wf, cl>>

(***************************************************************************)
(* findTokenCreationBlock                                                  *)
(***************************************************************************)
\* midBlock = Math.floor((lowBlock + highBlock) / 2)
MidBlock(lo, hi) == (lo + hi) \div 2

\* Variant: the search stops at the first block found to hold code.
ProbeStepStopAtFirstHit(s, outcome) ==
  LET mid == (s.low + s.high) \div 2 IN
  CASE outcome = "absent"  -> [s EXCEPT !.low = mid + 1]
    [] outcome = "present" -> [s EXCEPT !.found = mid, !.high = s.low - 1]
    [] outcome = "error"   -> [s EXCEPT !.low = mid + 1]

\* Variant: a probe that throws ends the search.
ProbeStepErrorAborts(s, outcome) ==
  LET mid == (s.low + s.high) \div 2 IN
  CASE outcome = "absent"  -> [s EXCEPT !.low = mid + 1]
    [] outcome = "present" -> [s EXCEPT !.found = mid, !.high = mid - 1]
    [] outcome = "error"   -> [s EXCEPT !.pc = "failed", !.err = "Transport"]

\* Variant: after a block without code the search resumes two blocks higher.
ProbeStepSkipsBlock(s, outcome) ==
  LET mid == (s.low + s.high) \div 2 IN
  CASE outcome = "absent"  -> [s EXCEPT !.low = mid + 2]
    [] outcome = "present" -> [s EXCEPT !.found = mid, !.high = mid - 1]
    [] outcome = "error"   -> [s EXCEPT !.low = mid + 1]

\* Variant: after a block with code the upper end is set to that block.
ProbeStepHighToMid(s, outcome) ==
  LET mid == (s.low + s.high) \div 2 IN
  CASE outcome = "absent"  -> [s EXCEPT !.low = mid + 1]
    [] outcome = "present" -> [s EXCEPT !.found = mid, !.high = mid]
    [] outcome = "error"   -> [s EXCEPT !.low = mid + 1]

\* One iteration of the while loop on the probe's outcome:
\* "absent" (codeAtBlock === '0x'), "present", or "error" (getCode threw).
ProbeStep(s, outcome) ==
  LET mid == MidBlock(s.low, s.high) IN
  CASE outcome = "absent"  -> [s EXCEPT !.low = mid + 1]
    [] outcome = "present" -> [s EXCEPT !.found = mid, !.high = mid - 1]
    [] outcome = "error"   -> [s EXCEPT !.low = mid + 1]

\* The locals before the call starts.
\* presentAt and failedAt record the blocks at which a probe of this call
\* reported code, and at which a probe of this call threw.
FindIdle(k) ==
  [pc |-> "idle", K |-> k, low |-> 0, high |-> 0, found |-> NoBlock,
   probes |-> 0, nfail |-> 0, lastMid |-> NoBlock, lastOutcome |-> "none",
   err |-> "none", presentAt |-> {}, failedAt |-> {}]

\* Variant: the code at the latest block is not looked at.
FindCheckCodeSkipped(t) ==
  /\ fs[t].pc = "code"
  /\ fs' = [fs EXCEPT ![t].pc = "blocknum"]
  /\ UNCHANGED <<head, chainEvents, chainPool, rd, launchVars, flowVars>>

\* const code = await provider.getCode(tokenAddress);
\* if (code === '0x') throw new Error('Address is not a contract');
FindCheckCode(t) ==
  /\ fs[t].pc = "code"
  /\ \/ /\ HasCodeAt(fs[t].K, head)
        /\ fs' = [fs EXCEPT ![t].pc = "blocknum"]
     \/ /\ ~HasCodeAt(fs[t].K, head)
        /\ fs' = [fs EXCEPT ![t].pc = "failed", ![t].err = "NotAContract"]
     \/ /\ fs[t].nfail < MaxFail
        /\ fs' = [fs EXCEPT ![t].pc = "failed", ![t].err = "Transport",
                            ![t].nfail = @ + 1]
  /\ UNCHANGED <<head, chainEvents, chainPool, rd, launchVars, flowVars>>

\* let highBlock = await provider.getBlockNumber(); let lowBlock = 0;
\* let foundBlock = null;
FindGetBlockNumber(t) ==
  /\ fs[t].pc = "blocknum"
  /\ \/ fs' = [fs EXCEPT ![t].pc = "loop", ![t].high = head, ![t].low = 0,
                         ![t].found = NoBlock]
     \/ /\ fs[t].nfail < MaxFail
        /\ fs' = [fs EXCEPT ![t].pc = "failed", ![t].err = "Transport",
                            ![t].nfail = @ + 1]
  /\ UNCHANGED <<head, chainEvents, chainPool, rd, launchVars, flowVars>>

\* What the iteration leaves in the call's record: the locals after the step
\* and the history of the probe at `mid` with outcome `o`.
Probed(s, mid, o) ==
  [s EXCEPT !.probes = @ + 1,
            !.nfail = IF o = "error" THEN @ + 1 ELSE @,
            !.lastMid = mid, !.lastOutcome = o,
            !.presentAt = IF o = "present" THEN @ \cup {mid} ELSE @,
            !.failedAt = IF o = "error" THEN @ \cup {mid} ELSE @]

\* Variant: foundBlock is declared outside the function, so every call in
\* progress sees the block the last probe of any call has recorded.
FindProbeSharedFound(t) ==
  /\ fs[t].pc = "loop"
  /\ fs[t].low <= fs[t].high
  /\ LET mid == MidBlock(fs[t].low, fs[t].high) IN
     \E outcome \in {"answer", "error"} :
       /\ outcome = "error" => fs[t].nfail < MaxFail
       /\ LET o == IF outcome = "error" THEN "error"
                   ELSE IF HasCodeAt(fs[t].K, mid) THEN "present" ELSE "absent"
              s == ProbeStep(fs[t], o)
          IN fs' = [u \in Tasks |->
                      IF u = t THEN Probed(s, mid, o)
                      ELSE [fs[u] EXCEPT !.found = s.found]]
  /\ UNCHANGED <<head, chainEvents, chainPool, rd, launchVars, flowVars>>

\* One pass of `while (lowBlock <= highBlock)`: the probe at midBlock answers
\* from the chain, or throws and is caught inside the loop.
FindProbe(t) ==
  /\ fs[t].pc = "loop"
  /\ fs[t].low <= fs[t].high
  /\ LET mid == MidBlock(fs[t].low, fs[t].high) IN
     \E outcome \in {"answer", "error"} :
       /\ outcome = "error" => fs[t].nfail < MaxFail
       /\ LET o == IF outcome = "error" THEN "error"
                   ELSE IF HasCodeAt(fs[t].K, mid) THEN "present" ELSE "absent"
              s == ProbeStep(fs[t], o)
          IN fs' = [fs EXCEPT ![t] = Probed(s, mid, o)]
  /\ UNCHANGED <<head, chainEvents, chainPool, rd, launchVars, flowVars>>

\* Variant: without a found block the latest block is returned.
FindFinishFallback(t) ==
  /\ fs[t].pc = "loop"
  /\ fs[t].low > fs[t].high
  /\ IF fs[t].found = NoBlock
       THEN fs' = [fs EXCEPT ![t].pc = "done", ![t].found = head]
       ELSE fs' = [fs EXCEPT ![t].pc = "done"]
  /\ UNCHANGED <<head, chainEvents, chainPool, rd, launchVars, flowVars>>

\* After the loop: if (foundBlock === null) throw ...; return foundBlock;
FindFinish(t) ==
  /\ fs[t].pc = "loop"
  /\ fs[t].low > fs[t].high
  /\ IF fs[t].found = NoBlock
       THEN fs' = [fs EXCEPT ![t].pc = "failed", ![t].err = "NoCreationBlock"]
       ELSE fs' = [fs EXCEPT ![t].pc = "done"]
  /\ UNCHANGED <<head, chainEvents, chainPool, rd, launchVars, flowVars>>

FindNext(t) ==
  \/ FindCheckCode(t)
  \/ FindGetBlockNumber(t)
  \/ FindProbe(t)
  \/ FindFinish(t)

(***************************************************************************)
(* Fixed-point amounts (ethers.formatEther / ethers.parseEther), with the  *)
(* 18 decimals of the chain scaled down to Decimals.                       *)
(***************************************************************************)
Decimals == 3

RECURSIVE Pow10(_)
Pow10(n) == IF n = 0 THEN 1 ELSE 10 * Pow10(n - 1)

\* Base units per RON.
Unit == Pow10(Decimals)

DigitChars == <<"0", "1", "2", "3", "4", "5", "6", "7", "8", "9">>

DigitChar(d) == DigitChars[d + 1]

\* BigInt.prototype.toString for a value >= 0.
RECURSIVE NatToStr(_)
NatToStr(n) ==
  IF n < 10 THEN <<DigitChar(n)>> ELSE NatToStr(n \div 10) \o <<DigitChar(n % 10)>>

\* Left-pads a digit string with zeros to more than `width` characters.
RECURSIVE PadLeft(_, _)
PadLeft(str, width) ==
  IF Len(str) > width THEN str ELSE PadLeft(<<"0">> \o str, width)

\* Drops trailing zeros, keeping the digit that follows the point.
RECURSIVE StripTrailingZeros(_)
StripTrailingZeros(str) ==
  IF Len(str) >= 2 /\ str[Len(str)] = "0" /\ str[Len(str) - 1] # "."
    THEN StripTrailingZeros(SubSeq(str, 1, Len(str) - 1))
    ELSE str

\* ethers.formatEther(value) for value >= 0: "<whole>.<fraction>".
FormatEther(v) ==
  LET padded == PadLeft(NatToStr(v), Decimals)
      index  == Len(padded) - Decimals
  IN StripTrailingZeros(
       SubSeq(padded, 1, index) \o <<".">> \o SubSeq(padded, index + 1, Len(padded)))

(***************************************************************************)
(* getTokenPoolInfo / getTokenMetadata / getCompleteTokenInfo              *)
(***************************************************************************)
\* Snapshots of the pools_ struct the chain may hold for the token.
Pools ==
  { [token |-> "tok", tokenReserve |-> 800000, virtualTokenReserve |-> 1000000,
     ethReserve |-> 0, virtualEthReserve |-> 2000, lastPrice |-> 2,
     lastMcapInEth |-> 2000, creator |-> "alice", curveConstant |-> 2000000000],
    [token |-> "tok", tokenReserve |-> 400000, virtualTokenReserve |-> 500000,
     ethReserve |-> 2000, virtualEthReserve |-> 4000, lastPrice |-> 8,
     lastMcapInEth |-> 8000, creator |-> "alice", curveConstant |-> 2000000000] }

\* The object getTokenPoolInfo builds from the struct the contract returned.
PoolInfoOf(p) ==
  [token |-> p.token, tokenReserve |-> p.tokenReserve,
   virtualTokenReserve |-> p.virtualTokenReserve, ethReserve |-> p.ethReserve,
   virtualEthReserve |-> p.virtualEthReserve, lastPrice |-> p.lastPrice,
   lastMcapInEth |-> p.lastMcapInEth, creator |-> p.creator,
   curveConstant |-> p.curveConstant]

\* The decoded arguments of the i-th TokenCreated event of the token.
EventArgs(i) ==
  [name |-> <<"name", i>>, symbol |-> <<"symbol", i>>,
   description |-> <<"description", i>>, extended |-> <<"extended", i>>,
   tokenUrlImage |-> <<"image", i>>]

\* The TokenMetadata object built from an event's args.
MetadataOf(args) ==
  [name |-> args.name, symbol |-> args.symbol, description |-> args.description,
   extended |-> args.extended, imageUrl |-> args.tokenUrlImage]

\* const fromBlock = Math.max(0, currentBlock - 10000);
FromBlockOf(currentBlock) == Max(0, currentBlock - LOOKBACK)

\* Proposed: fromBlock = Math.max(0, currentBlock - 499) when none is given.
ProposedFromBlock(fromArg, currentBlock) ==
  IF fromArg = NoBlock THEN Max(0, currentBlock - PROPOSED_WINDOW) ELSE fromArg

\* Proposed: const toBlock = Math.min(currentBlock, fromBlock + 499);
ProposedToBlock(fromBlock, currentBlock) ==
  Min(currentBlock, fromBlock + PROPOSED_WINDOW)

\* The provider's answer to queryFilter(filter, from, to): the matching logs
\* of blocks from..to, in ascending block order.
RECURSIVE QueryFilter(_, _, _)
QueryFilter(evs, from, to) ==
  IF evs = <<>> THEN <<>>
  ELSE LET rest == QueryFilter(Tail(evs), from, to) IN
       IF Head(evs).block >= from /\ Head(evs).block <= to
         THEN <<Head(evs)>> \o rest ELSE rest

\* Variant: the first event of the list is taken.
SelectFirstEvent(events) == events[1]

\* const creationEvent = events[events.length - 1];
SelectCreationEvent(events) == events[Len(events)]

\* Variant: an empty list yields empty metadata instead of an error.
MetadataOutcomeDefault(events, emptyErr) ==
  IF Len(events) = 0
    THEN [err |-> "none",
          metadata |-> <<[name |-> "", symbol |-> "", description |-> "",
                          extended |-> "", imageUrl |-> ""]>>]
  ELSE LET creationEvent == events[Len(events)] IN
       IF creationEvent.args = <<>>
         THEN [err |-> "NoArgs", metadata |-> <<>>]
         ELSE [err |-> "none", metadata |-> <<MetadataOf(creationEvent.args[1])>>]

\* The outcome of getTokenMetadata once queryFilter returned `events`:
\* the thrown error, or the metadata returned.
MetadataOutcome(events, emptyErr) ==
  IF Len(events) = 0 THEN [err |-> emptyErr, metadata |-> <<>>]
  ELSE LET creationEvent == SelectCreationEvent(events) IN
       IF creationEvent.args = <<>>
         THEN [err |-> "NoArgs", metadata |-> <<>>]
         ELSE [err |-> "none", metadata |-> <<MetadataOf(creationEvent.args[1])>>]

\* Proposed: the message of the not-found error depends on fromBlock.
ProposedEmptyErr(fromBlock) ==
  IF fromBlock > 0 THEN "NoCreationEventInRange" ELSE "NoCreationEvent"

\* The object getCompleteTokenInfo returns.
CompleteInfo(poolInfo, metadata) ==
  [poolInfo |-> poolInfo, metadata |-> metadata,
   formattedPrice |-> FormatEther(poolInfo.lastPrice),
   formattedMarketCap |-> FormatEther(poolInfo.lastMcapInEth)]

\* The locals of a token-info call before it starts.
ReaderStart(op, fromArg) ==
  [op |-> op,
   pc |-> CASE op = "pool" -> "pool"
            [] op \in {"meta", "metaProposed"} -> "m_blocknum"
            [] op = "complete" -> "pool"
            [] op \in {"optimized", "find"} -> "find"
            [] OTHER -> "off",
   fromArg |-> fromArg, creationBlock |-> NoBlock, currentBlock |-> NoBlock,
   poolInfo |-> <<>>, events |-> <<>>, queries |-> <<>>, scanned |-> FALSE,
   metadata |-> <<>>, result |-> <<>>, err |-> "none",
   calls |-> 1, poolReads |-> 0, prevResult |-> <<>>]

\* Whether this call reads metadata the proposed way.
UsesProposed(r) == r.op = "metaProposed"

\* The throw leaves the call: nothing is returned.
Fail(r, e) == [r EXCEPT !.pc = "failed", !.err = e]

\* Variant: the handler logs the error and returns what was read so far.
CompleteCatchSwallow(r, e) ==
  [r EXCEPT !.pc = "done", !.err = e,
            !.result = <<[poolInfo |-> r.poolInfo, metadata |-> r.metadata]>>]

\* getCompleteTokenInfo: catch (error) { console.error(...); throw error; }
CompleteCatch(r, e) == Fail(r, e)

\* An error thrown by getTokenPoolInfo or getTokenMetadata reaches the caller:
\* getCompleteTokenInfo catches and rethrows it, the other callers have no
\* handler.
Throw(r, e) == IF r.op = "complete" THEN CompleteCatch(r, e) ELSE Fail(r, e)

\* getCompleteTokenInfoOptimized: const creationBlock = await findTokenCreationBlock(...)
OptAfterFind ==
  /\ rd.pc = "find"
  /\ rd.op = "optimized"
  /\ fs[1].pc \in {"done", "failed"}
  /\ IF fs[1].pc = "done"
       THEN rd' = [rd EXCEPT !.pc = "pool", !.creationBlock = fs[1].found]
       ELSE rd' = Fail(rd, fs[1].err)
  /\ UNCHANGED <<head, chainEvents, chainPool, fs, launchVars, flowVars>>

\* What follows the pool read in the caller.
AfterPool(r, poolInfo) ==
  IF r.op = "pool"
    THEN [r EXCEPT !.pc = "done", !.poolInfo = <<poolInfo>>, !.result = <<poolInfo>>]
    ELSE [r EXCEPT !.pc = "m_blocknum", !.poolInfo = <<poolInfo>>]

\* Variant: the pool of an earlier call is kept and returned without a read.
PoolReadCached ==
  /\ rd.pc = "pool"
  /\ IF rd.prevResult # <<>>
       THEN rd' = AfterPool(rd, rd.prevResult[1])
       ELSE \/ rd' = AfterPool([rd EXCEPT !.poolReads = @ + 1], PoolInfoOf(chainPool))
            \/ rd' = Throw([rd EXCEPT !.poolReads = @ + 1], "PoolReadFailed")
  /\ UNCHANGED <<head, chainEvents, chainPool, fs, launchVars, flowVars>>

\* const poolInfo = await mainContract.pools_(tokenAddress); return {...}
\* poolReads counts the pools_ reads this call has issued.
PoolRead ==
  /\ rd.pc = "pool"
  /\ \/ rd' = AfterPool([rd EXCEPT !.poolReads = @ + 1], PoolInfoOf(chainPool))
     \/ rd' = Throw([rd EXCEPT !.poolReads = @ + 1], "PoolReadFailed")
  /\ UNCHANGED <<head, chainEvents, chainPool, fs, launchVars, flowVars>>

\* Calls of getTokenPoolInfo in one behaviour.
MaxPoolCalls == 3

\* The caller calls getTokenPoolInfo again; prevResult keeps what the call
\* before returned.
PoolCall ==
  /\ rd.op = "pool"
  /\ rd.pc \in {"done", "failed"}
  /\ rd.calls < MaxPoolCalls
  /\ rd' = [ReaderStart("pool", NoBlock) EXCEPT !.calls = rd.calls + 1,
                                                !.prevResult = rd.result]
  /\ UNCHANGED <<head, chainEvents, chainPool, fs, launchVars, flowVars>>

\* A trade changes the pool of the token on the main contract.
PoolChange ==
  /\ rd.op = "pool"
  /\ \E p \in Pools \ {chainPool} : chainPool' = p
  /\ UNCHANGED <<head, chainEvents, fs, rd, launchVars, flowVars>>

\* Largest virtual reserve of the pools calculateCurrentPrice is tried on.
MaxReserve == 9

\* Number(a) / Number(b) as a JavaScript number: a ratio, Infinity or NaN.
\* The rounding of doubles is left out.
NumberDivide(a, b) ==
  IF b = 0
    THEN [kind |-> IF a = 0 THEN "NaN" ELSE "Infinity", num |-> 0, den |-> 1]
    ELSE [kind |-> "finite", num |-> a, den |-> b]

\* x * 10**18, with the scaled unit.
NumberTimesUnit(x) ==
  IF x.kind = "finite" THEN [x EXCEPT !.num = @ * Unit] ELSE x

\* Math.floor(x): Infinity and NaN stay as they are.
MathFloor(x) ==
  IF x.kind = "finite" THEN [x EXCEPT !.num = x.num \div x.den, !.den = 1] ELSE x

\* Variant: a pool without virtual tokens is given the price 0.
CalculateCurrentPriceGuarded(poolInfo) ==
  IF poolInfo.virtualTokenReserve = 0
    THEN [err |-> "none", price |-> <<FormatEther(0)>>]
    ELSE [err |-> "none",
          price |-> <<FormatEther((poolInfo.virtualEthReserve * Unit)
                                    \div poolInfo.virtualTokenReserve)>>]

\* calculateCurrentPrice(poolInfo): BigInt(x) throws a RangeError when x is
\* Infinity or NaN.
CalculateCurrentPrice(poolInfo) ==
  LET price == NumberTimesUnit(NumberDivide(poolInfo.virtualEthReserve,
                                            poolInfo.virtualTokenReserve))
      floored == MathFloor(price)
  IN IF floored.kind = "finite"
       THEN [err |-> "none", price |-> <<FormatEther(floored.num)>>]
       ELSE [err |-> "RangeError", price |-> <<>>]

\* A caller computes the price of the pool it holds.
PriceCompute ==
  /\ rd.op = "price"
  /\ rd.pc = "price"
  /\ LET poolInfo == PoolInfoOf(chainPool)
         out == CalculateCurrentPrice(poolInfo)
     IN rd' = IF out.err = "none"
                THEN [rd EXCEPT !.pc = "done", !.poolInfo = <<poolInfo>>,
                                !.result = out.price]
                ELSE Fail([rd EXCEPT !.poolInfo = <<poolInfo>>], out.err)
  /\ UNCHANGED <<head, chainEvents, chainPool, fs, launchVars, flowVars>>

PoolNext ==
  \/ PoolRead
  \/ PoolCall
  \/ PoolChange
  \/ PriceCompute

\* const currentBlock = await ethersProvider.getBlockNumber();
MetaGetBlockNumber ==
  /\ rd.pc = "m_blocknum"
  /\ \/ rd' = [rd EXCEPT !.pc = "m_query", !.currentBlock = head]
     \/ rd' = Throw(rd, "Transport")
  /\ UNCHANGED <<head, chainEvents, chainPool, fs, launchVars, flowVars>>

\* The block range of the query getTokenMetadata issues.
QueryRange(r) ==
  IF UsesProposed(r)
    THEN LET from == ProposedFromBlock(r.fromArg, r.currentBlock) IN
         [from |-> from, to |-> ProposedToBlock(from, r.currentBlock)]
    ELSE [from |-> FromBlockOf(r.currentBlock), to |-> head]

\* What follows a successful metadata read in the caller.
AfterMetadata(r, metadata) ==
  IF r.op \in {"complete", "optimized"}
    THEN [r EXCEPT !.pc = "done", !.metadata = <<metadata>>,
                   !.result = <<CompleteInfo(r.poolInfo[1], metadata)>>]
    ELSE [r EXCEPT !.pc = "done", !.metadata = <<metadata>>,
                   !.result = <<metadata>>]

\* const events = await mainContract.queryFilter(filter, fromBlock[, toBlock]);
\* then the empty check, the choice of the creation event and the return.
MetaQuery ==
  /\ rd.pc = "m_query"
  /\ LET q == QueryRange(rd)
         r1 == [rd EXCEPT !.queries = Append(@, q)]
     IN \/ LET events == QueryFilter(chainEvents, q.from, q.to)
               emptyErr == IF UsesProposed(rd) THEN ProposedEmptyErr(q.from)
                           ELSE "NoCreationEvent"
               out == MetadataOutcome(events, emptyErr)
               r2 == [r1 EXCEPT !.events = events, !.scanned = TRUE]
           IN IF out.err = "none"
                THEN rd' = AfterMetadata(r2, out.metadata[1])
                ELSE rd' = Throw(r2, out.err)
        \/ rd' = Throw(r1, "Transport")
        \/ /\ q.to - q.from + 1 > MAX_BLOCK_RANGE
           /\ rd' = Throw(r1, "BlockRangeLimit")
  /\ UNCHANGED <<head, chainEvents, chainPool, fs, launchVars, flowVars>>

ReaderNext ==
  \/ OptAfterFind
  \/ PoolRead
  \/ MetaGetBlockNumber
  \/ MetaQuery

(***************************************************************************)
(* createTokenOnContract                                                   *)
(***************************************************************************)
\* Longest initAmountIn string, and most logs in a receipt, the model draws.
MaxAmountLen == 5

MaxLogs == 3

\* Launches in one behaviour.
MaxLaunches == 2

\* Characters of an initAmountIn string; "x" stands for any character that is
\* neither a digit nor the point.
AmountChars == {"0", "1", ".", "x"}

RECURSIVE StringsUpTo(_)
StringsUpTo(n) ==
  IF n = 0 THEN {<<>>}
  ELSE LET shorter == StringsUpTo(n - 1) IN
       shorter \cup {Append(str, c) : str \in shorter, c \in AmountChars}

AmountStrings == StringsUpTo(MaxAmountLen)

IsDigit(c) == c \in {"0", "1", "2", "3", "4", "5", "6", "7", "8", "9"}

DigitValue(c) == CHOOSE d \in 0..9 : DigitChar(d) = c

AllDigits(str) == \A i \in 1..Len(str) : IsDigit(str[i])

AllZeros(str) == \A i \in 1..Len(str) : str[i] = "0"

\* BigInt(<digit string>); the empty string gives 0.
RECURSIVE StrToNat(_)
StrToNat(str) ==
  IF str = <<>> THEN 0
  ELSE 10 * StrToNat(SubSeq(str, 1, Len(str) - 1)) + DigitValue(str[Len(str)])

\* Position of the first point of str, or Len(str) + 1.
PointAt(str) ==
  IF \E i \in 1..Len(str) : str[i] = "."
    THEN CHOOSE i \in 1..Len(str) : str[i] = "." /\ \A j \in 1..(i - 1) : str[j] # "."
    ELSE Len(str) + 1

WholePart(str) == SubSeq(str, 1, PointAt(str) - 1)

FractionPart(str) == SubSeq(str, PointAt(str) + 1, Len(str))

RECURSIVE PadRight(_, _)
PadRight(str, width) ==
  IF Len(str) >= width THEN str ELSE PadRight(Append(str, "0"), width)

\* ethers.parseEther accepts /^([0-9]*)\.?([0-9]*)$/ with at least one digit
\* and no non-zero digit beyond the unit's decimals; it throws otherwise.
ParseEtherOk(str) ==
  /\ AllDigits(WholePart(str))
  /\ AllDigits(FractionPart(str))
  /\ Len(WholePart(str)) + Len(FractionPart(str)) > 0
  /\ AllZeros(SubSeq(PadRight(FractionPart(str), Decimals), Decimals + 1,
                     Len(PadRight(FractionPart(str), Decimals))))

\* ethers.parseEther(str) for an accepted string: the amount in base units.
ParseEther(str) ==
  StrToNat(WholePart(str)) * Unit
    + StrToNat(SubSeq(PadRight(FractionPart(str), Decimals), 1, Decimals))

\* Variant: the fee is left out of the value.
TotalValueNoFee(creationFee, valueAmount) == valueAmount

\* const totalValue = creationFee + valueAmount;
TotalValue(creationFee, valueAmount) == creationFee + valueAmount

\* Creation fees the contract may hold (base units).
Fees == {100, 250}

\* ethers.ZeroHash and some other topic.
ZeroHash == "0x00"

OtherHash == "0xddf2"

LogAddresses == {"0xAAA", "0xBBB"}

\* Logs of a receipt: with no topics field, or with one or two topics.
LogShapes ==
  {[address |-> a, hasTopics |-> FALSE, topics |-> <<>>] : a \in LogAddresses}
    \cup {[address |-> a, hasTopics |-> TRUE, topics |-> tp] :
            a \in LogAddresses,
            tp \in {<<OtherHash>>, <<OtherHash, ZeroHash>>, <<OtherHash, OtherHash>>,
                    <<ZeroHash, OtherHash>>}}

RECURSIVE LogLists(_)
LogLists(n) ==
  IF n = 0 THEN {<<>>}
  ELSE LET shorter == LogLists(n - 1) IN
       shorter \cup {Append(logs, l) : logs \in shorter, l \in LogShapes}

\* Variant: the first topic is compared, as the comment of step 8 words it.
IsCreationLogFirstTopic(log) ==
  /\ log.hasTopics
  /\ Len(log.topics) >= 1
  /\ log.topics[1] = ZeroHash

\* log.topics && log.topics[1] === ethers.ZeroHash
IsCreationLog(log) ==
  /\ log.hasTopics
  /\ Len(log.topics) >= 2
  /\ log.topics[2] = ZeroHash

\* for (const log of txReceipt.logs) { if (...) { tokenAddress = log.address; break; } }
\* <<>> stands for `undefined`.
RECURSIVE ScanLogs(_)
ScanLogs(logs) ==
  IF logs = <<>> THEN <<>>
  ELSE IF IsCreationLog(Head(logs)) THEN <<Head(logs).address>>
  ELSE ScanLogs(Tail(logs))

\* Step 8: the receipt is <<>> (null) or <<logs>>.
ExtractTokenAddress(receipt) ==
  IF receipt # <<>> THEN ScanLogs(receipt[1]) ELSE <<>>

\* No call in progress.
LaunchIdle ==
  [pc |-> "idle", calls |-> 0, initAmountIn |-> <<>>, tokenUrlImage |-> "none",
   creationFee |-> 0, feeAtRead |-> 0, prevFeeAtRead |-> 0, valueAmount |-> 0,
   totalValue |-> 0,
   tx |-> <<>>, receipt |-> <<>>, mined |-> FALSE, tokenAddress |-> <<>>,
   result |-> <<>>, err |-> "none", stages |-> <<>>]

\* createTokenOnContract(signer, tokenInfo): the contract instance is built and
\* creationFee_() is called. The caller passes the same amount at every launch.
LaunchCall ==
  /\ ln.pc \in {"idle", "done", "failed"}
  /\ ln.calls < MaxLaunches
  /\ ln' = [LaunchIdle EXCEPT !.pc = "fee", !.calls = ln.calls + 1,
                              !.initAmountIn = harness.initAmountIn,
                              !.tokenUrlImage = "ipfs://img",
                              !.prevFeeAtRead = ln.feeAtRead,
                              !.stages = <<"fee">>]
  /\ UNCHANGED <<readerVars, flowVars, chainFee, harness>>

\* The owner of the contract changes the creation fee.
FeeChange ==
  /\ \E f \in Fees \ {chainFee} : chainFee' = f
  /\ UNCHANGED <<readerVars, flowVars, harness, ln>>

\* The createNewToken call as submitted: its arguments and the value attached.
NewTokenTx(l, totalValue) ==
  [method |-> "createNewToken", initAmountIn |-> l.initAmountIn,
   tokenUrlImage |-> l.tokenUrlImage, referral |-> "0x",
   value |-> NatToStr(totalValue)]

\* creationFee_() resolved with `fee`: steps 3 to 6 up to the call of
\* createNewToken. parseEther may throw, and then nothing is submitted.
AfterFeeRead(l, fee) ==
  IF ~ParseEtherOk(l.initAmountIn)
    THEN [l EXCEPT !.pc = "failed", !.err = "InvalidAmount", !.creationFee = fee]
    ELSE LET valueAmount == ParseEther(l.initAmountIn)
             totalValue == TotalValue(fee, valueAmount)
         IN [l EXCEPT !.pc = "submit", !.creationFee = fee,
                      !.valueAmount = valueAmount, !.totalValue = totalValue,
                      !.tx = <<NewTokenTx(l, totalValue)>>,
                      !.stages = Append(@, "submit")]

\* const creationFee = await mainContract.creationFee_();
LaunchFeeRead ==
  /\ ln.pc = "fee"
  /\ \/ ln' = [AfterFeeRead(ln, chainFee) EXCEPT !.feeAtRead = chainFee]
     \/ ln' = [ln EXCEPT !.pc = "failed", !.err = "FeeReadFailed"]
  /\ UNCHANGED <<readerVars, flowVars, chainFee, harness>>

\* Errors createNewToken or tx.wait() may reject with.
SubmitErrors == {"insufficient funds", "user rejected", "InvalidAmountIn"}

WaitErrors == {"transaction reverted", "network timeout"}

\* Variant: a rejected submit is sent again.
LaunchSubmittedRetry ==
  /\ ln.pc = "submit"
  /\ \/ ln' = [ln EXCEPT !.pc = "wait", !.stages = Append(@, "wait")]
     \/ /\ Len(ln.stages) < 4
        /\ ln' = [ln EXCEPT !.stages = Append(@, "submit")]
  /\ UNCHANGED <<readerVars, flowVars, chainFee, harness>>

\* const tx = await mainContract.createNewToken(...); then tx.wait() is called.
LaunchSubmitted ==
  /\ ln.pc = "submit"
  /\ \/ ln' = [ln EXCEPT !.pc = "wait", !.stages = Append(@, "wait")]
     \/ \E e \in SubmitErrors : ln' = [ln EXCEPT !.pc = "failed", !.err = e]
  /\ UNCHANGED <<readerVars, flowVars, chainFee, harness>>

\* The result object of step 9.
LaunchResult(l, tokenAddress) == [txHash |-> "0xhash", tokenAddress |-> tokenAddress]

\* Variant: a receipt without a creation log makes the call fail.
AfterReceiptStrict(l, receipt) ==
  LET tokenAddress == ExtractTokenAddress(receipt) IN
  IF tokenAddress = <<>>
    THEN [l EXCEPT !.pc = "failed", !.receipt = receipt, !.mined = (receipt # <<>>),
                   !.err = "NoTokenAddress"]
    ELSE [l EXCEPT !.pc = "done", !.receipt = receipt, !.mined = (receipt # <<>>),
                   !.tokenAddress = tokenAddress,
                   !.result = <<LaunchResult(l, tokenAddress)>>,
                   !.stages = Append(@, "extract")]

\* tx.wait() resolved with `receipt`: step 8 scans the logs, step 9 returns.
AfterReceipt(l, receipt) ==
  LET tokenAddress == ExtractTokenAddress(receipt) IN
  [l EXCEPT !.pc = "done", !.receipt = receipt, !.mined = (receipt # <<>>),
            !.tokenAddress = tokenAddress,
            !.result = <<LaunchResult(l, tokenAddress)>>,
            !.stages = Append(@, "extract")]

\* Receipts of at most one log, and of at most MaxLogs logs.
ShortLogLists == LogLists(1)

AllLogLists == LogLists(MaxLogs)

\* const txReceipt = await tx.wait();
LaunchReceipt ==
  /\ ln.pc = "wait"
  /\ \/ \E logs \in (IF harness.longReceipts THEN AllLogLists ELSE ShortLogLists) :
          ln' = AfterReceipt(ln, <<logs>>)
     \/ ln' = AfterReceipt(ln, <<>>)
     \/ \E e \in WaitErrors : ln' = [ln EXCEPT !.pc = "failed", !.err = e]
  /\ UNCHANGED <<readerVars, flowVars, chainFee, harness>>

LaunchNext ==
  \/ LaunchCall
  \/ FeeChange
  \/ LaunchFeeRead
  \/ LaunchSubmitted
  \/ LaunchReceipt

(***************************************************************************)
(* utils/errorHandling.ts                                                  *)
(***************************************************************************)
\* Longest raw error message, in fragments, the parsers are tried on.
MaxMsgLen == 2

\* The substrings the parsers look for. None of them contains another, so a
\* message is the sequence of the fragments it is made of; "other" stands for
\* any text that holds none of the substrings.
Patterns ==
  {"insufficient funds", "user rejected", "User denied", "network", "timeout",
   "InsufficientOutput", "InvalidAmountIn", "InvalidTokenMetadata",
   "unauthorized", "too large"}

Fragments == Patterns \cup {"other"}

RECURSIVE Messages(_)
Messages(n) ==
  IF n = 0 THEN {<<>>}
  ELSE LET shorter == Messages(n - 1) IN
       shorter \cup {Append(m, f) : m \in shorter, f \in Fragments}

\* errorMessage.includes(p)
Includes(msg, p) == \E i \in 1..Len(msg) : msg[i] = p

\* enum TokenCreationErrorType
TokenCreationErrorType ==
  {"UPLOAD_FAILED", "AUTHENTICATION_ERROR", "INSUFFICIENT_FUNDS",
   "TRANSACTION_FAILED", "CONTRACT_ERROR", "USER_REJECTED", "NETWORK_ERROR",
   "UNKNOWN_ERROR"}

\* new TokenCreationError(type, message, originalError): an Error with a type
\* and a message, and no status property. originalError is <<>> for null
\* and <<e>> for the value e.
TokenCreationError(type, message, originalError) ==
  [tce |-> TRUE, type |-> type, status |-> <<>>, message |-> <<message>>,
   originalError |-> originalError]

\* Any other thrown value: `status` and `message` may each be missing (<<>>).
RawError(status, message) ==
  [tce |-> FALSE, type |-> "Error", status |-> status, message |-> message]

\* error?.message || ''
MessageOf(error) == IF error.message = <<>> THEN <<>> ELSE error.message[1]

\* error?.status || 0
StatusOf(error) == IF error.status = <<>> THEN 0 ELSE error.status[1]

\* Variant: only the lower-case wording of a rejection is recognised.
ParseBlockchainErrorOneWording(error) ==
  LET errorMessage == MessageOf(error) IN
  IF Includes(errorMessage, "insufficient funds")
    THEN TokenCreationError("INSUFFICIENT_FUNDS", <<"You do not have enough RON">>, <<error>>)
  ELSE IF Includes(errorMessage, "user rejected")
    THEN TokenCreationError("USER_REJECTED", <<"You rejected the transaction">>, <<error>>)
  ELSE IF Includes(errorMessage, "network") \/ Includes(errorMessage, "timeout")
    THEN TokenCreationError("NETWORK_ERROR", <<"Network error occurred">>, <<error>>)
  ELSE IF Includes(errorMessage, "InsufficientOutput")
            \/ Includes(errorMessage, "InvalidAmountIn")
    THEN TokenCreationError("CONTRACT_ERROR", <<"Invalid initial amount">>, <<error>>)
  ELSE IF Includes(errorMessage, "InvalidTokenMetadata")
    THEN TokenCreationError("CONTRACT_ERROR", <<"Invalid token metadata">>, <<error>>)
  ELSE TokenCreationError("UNKNOWN_ERROR",
                          <<"An unexpected error occurred: ">> \o errorMessage,
                          <<error>>)

\* parseBlockchainError(error): the first test that matches decides.
ParseBlockchainError(error) ==
  LET errorMessage == MessageOf(error) IN
  IF Includes(errorMessage, "insufficient funds")
    THEN TokenCreationError("INSUFFICIENT_FUNDS", <<"You do not have enough RON">>, <<error>>)
  ELSE IF Includes(errorMessage, "user rejected")
            \/ Includes(errorMessage, "User denied")
    THEN TokenCreationError("USER_REJECTED", <<"You rejected the transaction">>, <<error>>)
  ELSE IF Includes(errorMessage, "network") \/ Includes(errorMessage, "timeout")
    THEN TokenCreationError("NETWORK_ERROR", <<"Network error occurred">>, <<error>>)
  ELSE IF Includes(errorMessage, "InsufficientOutput")
            \/ Includes(errorMessage, "InvalidAmountIn")
    THEN TokenCreationError("CONTRACT_ERROR", <<"Invalid initial amount">>, <<error>>)
  ELSE IF Includes(errorMessage, "InvalidTokenMetadata")
    THEN TokenCreationError("CONTRACT_ERROR", <<"Invalid token metadata">>, <<error>>)
  ELSE TokenCreationError("UNKNOWN_ERROR",
                          <<"An unexpected error occurred: ">> \o errorMessage,
                          <<error>>)

\* Variant: the network test is made before the size test.
ParseUploadErrorNetworkFirst(error) ==
  LET status == StatusOf(error)
      errorMessage == MessageOf(error)
  IN
  IF status = 401 \/ status = 403 \/ Includes(errorMessage, "unauthorized")
    THEN TokenCreationError("AUTHENTICATION_ERROR", <<"Authentication failed">>, <<error>>)
  ELSE IF Includes(errorMessage, "network") \/ status = 0 \/ status >= 500
    THEN TokenCreationError("NETWORK_ERROR", <<"Network error during upload">>, <<error>>)
  ELSE IF status = 413 \/ Includes(errorMessage, "too large")
    THEN TokenCreationError("UPLOAD_FAILED",
                            <<"Image file is ", "too large", ". Please use an image smaller than 1MB.">>,
                            <<error>>)
  ELSE TokenCreationError("UPLOAD_FAILED",
                          <<"Failed to upload image: ">> \o errorMessage,
                          <<error>>)

\* parseUploadError(error): the first test that matches decides.
ParseUploadError(error) ==
  LET status == StatusOf(error)
      errorMessage == MessageOf(error)
  IN
  IF status = 401 \/ status = 403 \/ Includes(errorMessage, "unauthorized")
    THEN TokenCreationError("AUTHENTICATION_ERROR", <<"Authentication failed">>, <<error>>)
  ELSE IF status = 413 \/ Includes(errorMessage, "too large")
    THEN TokenCreationError("UPLOAD_FAILED",
                            <<"Image file is ", "too large", ". Please use an image smaller than 1MB.">>,
                            <<error>>)
  ELSE IF Includes(errorMessage, "network") \/ status = 0 \/ status >= 500
    THEN TokenCreationError("NETWORK_ERROR", <<"Network error during upload">>, <<error>>)
  ELSE TokenCreationError("UPLOAD_FAILED",
                          <<"Failed to upload image: ">> \o errorMessage,
                          <<error>>)

\* HTTP statuses an error object may carry; <<>>: no status property.
ErrorStatuses == {<<>>, <<0>>, <<401>>, <<403>>, <<404>>, <<413>>, <<500>>, <<503>>}

\* The errors the parsers are tried on: any status with any message, or none.
RawErrors ==
  {RawError(st, m) : st \in ErrorStatuses,
                     m \in {<<>>} \cup {<<msg>> : msg \in Messages(MaxMsgLen)}}

\* Nothing is being classified.
ClassifyIdle ==
  [pc |-> "off", error |-> RawError(<<>>, <<>>), blockchain |-> <<>>, upload |-> <<>>]

\* A caller hands the error to parseBlockchainError.
ClassifyBlockchain ==
  /\ cl.pc = "input"
  /\ cl.blockchain = <<>>
  /\ cl' = [cl EXCEPT !.blockchain = <<ParseBlockchainError(cl.error)>>]
  /\ UNCHANGED <<readerVars, launchVars, up, wf>>

\* A caller hands the error to parseUploadError.
ClassifyUpload ==
  /\ cl.pc = "input"
  /\ cl.upload = <<>>
  /\ cl' = [cl EXCEPT !.upload = <<ParseUploadError(cl.error)>>]
  /\ UNCHANGED <<readerVars, launchVars, up, wf>>

ClassifyNext ==
  \/ ClassifyBlockchain
  \/ ClassifyUpload

(***************************************************************************)
(* uploadImageToIPFS                                                       *)
(***************************************************************************)
\* TOKEN_CREATION.MAX_IMAGE_SIZE: 1024 * 1024 bytes.
MAX_IMAGE_SIZE == 1048576

\* imageFile.type as the browser reports it.
FileTypes == {"image/png", "Image/PNG", "text/plain"}

\* imageFile.type.toLowerCase()
ToLowerCase(type) == IF type = "Image/PNG" THEN "image/png" ELSE type

\* fileType.startsWith('image/')
StartsWithImage(type) == type \in {"image/png", "Image/PNG"}

\* The files a caller passes: none (<<>>), or a file of some size and type.
ImageFiles ==
  {<<>>} \cup {<<[size |-> sz, type |-> ty]>> :
                 sz \in {0, MAX_IMAGE_SIZE, MAX_IMAGE_SIZE + 1}, ty \in FileTypes}

\* validateImageFile(imageFile): <<>> when it returns, <<error>> when it throws.
ValidateImageFile(imageFile) ==
  IF imageFile = <<>>
    THEN <<TokenCreationError("UPLOAD_FAILED", <<"No image file provided">>, <<>>)>>
  ELSE IF imageFile[1].size > MAX_IMAGE_SIZE
    THEN <<TokenCreationError("UPLOAD_FAILED",
             <<"Image file is ", "too large", " (", "size", "MB). Maximum allowed size is 1MB.">>,
             <<>>)>>
  ELSE IF ~StartsWithImage(ToLowerCase(imageFile[1].type))
    THEN <<TokenCreationError("UPLOAD_FAILED",
             <<"Invalid file type: ", ToLowerCase(imageFile[1].type),
               ". Please upload an image file.">>,
             <<>>)>>
  ELSE <<>>

\* HTTP statuses the upload endpoint answers with.
ResponseStatuses == {200, 400, 401, 403, 413, 500}

\* response.ok
ResponseOk(status) == status >= 200 /\ status <= 299

\* await response.text().catch(() => 'Unknown error')
ErrorTexts == {<<"Unknown error">>, <<"other">>, <<"unauthorized">>, <<"too large">>}

\* What fetch() or response.json() reject with: an error without a status.
FetchErrors ==
  {RawError(<<>>, <<>>), RawError(<<>>, <<<<"other">>>>),
   RawError(<<>>, <<<<"network", "other">>>>)}

\* No upload in progress.
UploadIdle ==
  [pc |-> "idle", file |-> <<>>, response |-> 0, thrown |-> <<>>, err |-> <<>>,
   imageUrl |-> <<>>]

\* Variant: the catch block hands every error to parseUploadError.
UploadCatchReparse(error) == ParseUploadError(error)

\* catch (error) { if (error instanceof TokenCreationError) throw error;
\*                 throw parseUploadError(error); }
UploadCatch(error) == IF error.tce THEN error ELSE ParseUploadError(error)

\* `error` is thrown inside the try block and leaves through the catch block.
UploadThrow(u, error) ==
  [u EXCEPT !.pc = "failed", !.thrown = <<error>>, !.err = <<UploadCatch(error)>>]

\* uploadImageToIPFS(imageFile) up to the fetch request.
UploadBegin(imageFile) ==
  LET u == [UploadIdle EXCEPT !.file = imageFile]
      invalid == ValidateImageFile(imageFile)
  IN IF invalid # <<>> THEN UploadThrow(u, invalid[1])
     ELSE [u EXCEPT !.pc = "fetch"]

\* The Response of the fetch, as an error's cause: it has a status and no
\* message.
ResponseObject(status) == RawError(<<status>>, <<>>)

\* The parsed body of a response without imageUrl, as an error's cause.
DataObject == RawError(<<>>, <<>>)

\* if (!response.ok) throw new TokenCreationError(UPLOAD_FAILED,
\*   `Upload failed: ${response.status} ${response.statusText}. ${errorText}`, response)
UploadResponseError(status, errorText) ==
  TokenCreationError("UPLOAD_FAILED",
                     <<"Upload failed: ">> \o NatToStr(status) \o <<" ", "statusText", ". ">>
                       \o errorText,
                     <<ResponseObject(status)>>)

\* uploadImageToIPFS is called on its own.
UploadCall ==
  /\ up.pc = "idle"
  /\ \E imageFile \in ImageFiles : up' = UploadBegin(imageFile)
  /\ UNCHANGED <<readerVars, launchVars, wf, cl>>

\* const response = await fetch(...); if (!response.ok) { ... }
UploadResponse ==
  /\ up.pc = "fetch"
  /\ \/ \E status \in ResponseStatuses, errorText \in ErrorTexts :
          up' = IF ResponseOk(status)
                  THEN [up EXCEPT !.pc = "json", !.response = status]
                  ELSE UploadThrow([up EXCEPT !.response = status],
                                   UploadResponseError(status, errorText))
     \/ \E e \in FetchErrors : up' = UploadThrow(up, e)
  /\ UNCHANGED <<readerVars, launchVars, wf, cl>>

\* The values of data.imageUrl the endpoint may answer with.
ImageUrls == {"ipfs://a", "ipfs://b"}

\* const data = await response.json(); if (!data.imageUrl) { ... } return data.imageUrl;
UploadJson ==
  /\ up.pc = "json"
  /\ \/ \E imageUrl \in ImageUrls : up' = [up EXCEPT !.pc = "done", !.imageUrl = <<imageUrl>>]
     \/ up' = UploadThrow(up, TokenCreationError("UPLOAD_FAILED",
                 <<"Upload succeeded but no image URL was returned">>,
                 <<DataObject>>))
     \/ \E e \in FetchErrors : up' = UploadThrow(up, e)
  /\ UNCHANGED <<readerVars, launchVars, wf, cl>>

(***************************************************************************)
(* createTokenWithImage                                                    *)
(***************************************************************************)
\* No workflow in progress.
WorkflowIdle ==
  [pc |-> "idle", imageUrl |-> <<>>, thrown |-> <<>>, err |-> <<>>, result |-> <<>>]

\* The error object createTokenOnContract rejects with, for each failure of
\* the launch: what the provider or ethers.parseEther threw, unchanged.
LaunchRawError(e) ==
  CASE e = "insufficient funds" -> RawError(<<>>, <<<<"insufficient funds", "other">>>>)
    [] e = "user rejected" -> RawError(<<>>, <<<<"user rejected">>>>)
    [] e = "InvalidAmountIn" -> RawError(<<>>, <<<<"other", "InvalidAmountIn">>>>)
    [] e = "network timeout" -> RawError(<<>>, <<<<"network", "timeout">>>>)
    [] OTHER -> RawError(<<>>, <<<<"other">>>>)

\* Variant: the catch block rethrows whatever it caught.
WorkflowCatchRethrow(error) == error

\* catch (error) { if (error instanceof TokenCreationError) throw error;
\*                 throw parseBlockchainError(error); }
WorkflowCatch(error) == IF error.tce THEN error ELSE ParseBlockchainError(error)

WorkflowThrow(w, error) ==
  [w EXCEPT !.pc = "failed", !.thrown = <<error>>, !.err = <<WorkflowCatch(error)>>]

\* if (!result || !result.tokenAddress) throw new Error('Token creation
\* failed: No token address returned'); return { tokenAddress, txHash, imageUrl };
AfterCreateToken(w, result) ==
  IF result.tokenAddress = <<>>
    THEN WorkflowThrow(w, RawError(<<>>,
           <<<<"Token creation failed: No token address returned">>>>))
    ELSE [w EXCEPT !.pc = "done",
                   !.result = <<[tokenAddress |-> result.tokenAddress,
                                 txHash |-> result.txHash,
                                 imageUrl |-> w.imageUrl[1]]>>]

\* createTokenWithImage(signer, imageFile, tokenDetails): step 1 calls
\* uploadImageToIPFS(imageFile).
WorkflowCall ==
  /\ wf.pc = "idle"
  /\ up.pc = "off"
  /\ \E imageFile \in ImageFiles : up' = UploadBegin(imageFile)
  /\ wf' = [wf EXCEPT !.pc = "upload"]
  /\ UNCHANGED <<readerVars, launchVars, cl>>

\* Variant: a failed upload is logged and the token is created with the
\* first known image URL.
WorkflowUploadedFallback ==
  /\ wf.pc = "upload"
  /\ up.pc \in {"done", "failed"}
  /\ LET imageUrl == IF up.pc = "failed" THEN "ipfs://a" ELSE up.imageUrl[1] IN
       /\ wf' = [wf EXCEPT !.pc = "create", !.imageUrl = <<imageUrl>>]
       /\ ln' = [LaunchIdle EXCEPT !.pc = "fee", !.calls = ln.calls + 1,
                                   !.initAmountIn = harness.initAmountIn,
                                   !.tokenUrlImage = imageUrl,
                                   !.stages = <<"fee">>]
  /\ UNCHANGED <<readerVars, chainFee, harness, up, cl>>

\* const imageUrl = await uploadImageToIPFS(imageFile); step 2 calls
\* createTokenOnContract(signer, { ...tokenDetails, tokenUrlImage: imageUrl }).
WorkflowUploaded ==
  /\ wf.pc = "upload"
  /\ up.pc \in {"done", "failed"}
  /\ IF up.pc = "failed"
       THEN /\ wf' = WorkflowThrow(wf, up.err[1])
            /\ ln' = ln
       ELSE /\ wf' = [wf EXCEPT !.pc = "create", !.imageUrl = up.imageUrl]
            /\ ln' = [LaunchIdle EXCEPT !.pc = "fee", !.calls = ln.calls + 1,
                                        !.initAmountIn = harness.initAmountIn,
                                        !.tokenUrlImage = up.imageUrl[1],
                                        !.stages = <<"fee">>]
  /\ UNCHANGED <<readerVars, chainFee, harness, up, cl>>

\* const result = await createTokenOnContract(...); and the rest of the try block.
WorkflowCreated ==
  /\ wf.pc = "create"
  /\ ln.pc \in {"done", "failed"}
  /\ wf' = IF ln.pc = "failed" THEN WorkflowThrow(wf, LaunchRawError(ln.err))
           ELSE AfterCreateToken(wf, ln.result[1])
  /\ UNCHANGED <<readerVars, launchVars, up, cl>>

FlowNext ==
  \/ ClassifyNext
  \/ UploadCall
  \/ UploadResponse
  \/ UploadJson
  \/ WorkflowCall
  \/ WorkflowUploaded
  \/ WorkflowCreated
  \/ LaunchFeeRead
  \/ LaunchSubmitted
  \/ LaunchReceipt

(***************************************************************************)
(* createTokenOnContract as the standalone snippet has it                  *)
(***************************************************************************)
\* const tx = await mainContract.createNewToken(...); const txReceipt =
\* tx.wait(); -- txReceipt is the pending promise, which has no `logs`, so the
\* loop is skipped and { txHash, tokenAddress: undefined } is returned at once.
SnippetSubmitted ==
  /\ ln.pc = "submit"
  /\ \/ ln' = [ln EXCEPT !.pc = "done", !.receipt = <<>>, !.mined = FALSE,
                         !.tokenAddress = <<>>,
                         !.result = <<LaunchResult(ln, <<>>)>>,
                         !.stages = @ \o <<"wait", "extract">>]
     \/ \E e \in SubmitErrors : ln' = [ln EXCEPT !.pc = "failed", !.err = e]
  /\ UNCHANGED <<readerVars, flowVars, chainFee, harness>>

\* The promise of tx.wait() settles after the snippet has returned: the
\* transaction is mined and its receipt exists, and nothing reads it.
SnippetMined ==
  /\ ln.pc = "done"
  /\ ~ln.mined
  /\ \E logs \in (IF harness.longReceipts THEN AllLogLists ELSE ShortLogLists) :
       ln' = [ln EXCEPT !.receipt = <<logs>>, !.mined = TRUE]
  /\ UNCHANGED <<readerVars, flowVars, chainFee, harness>>

SnippetNext ==
  \/ LaunchCall
  \/ FeeChange
  \/ LaunchFeeRead
  \/ SnippetSubmitted
  \/ SnippetMined

(***************************************************************************)
(* Specifications                                                          *)
(***************************************************************************)
\* Creation blocks tried for a chain of height h; h + 1: no code at any block.
KChoices(h) ==
  {g \in Grid : g <= h} \cup {h - d : d \in 0..Min(MaxOff, h)} \cup {h + 1}

\* Blocks that hold TokenCreated events: the ends of the chain and the two
\* sides of every window edge.
EventBlocks(h) ==
  {b \in {0, PROPOSED_WINDOW, PROPOSED_WINDOW + 1, h - LOOKBACK - 1, h - LOOKBACK, h} :
     b >= 0 /\ b <= h}

\* Event lists of at most n events on `blocks`, ascending by block; the i-th
\* event carries EventArgs(i), or could not be decoded (no args).
RECURSIVE EventLists(_, _)
EventLists(n, blocks) ==
  IF n = 0 THEN {<<>>}
  ELSE LET shorter == EventLists(n - 1, blocks) IN
       shorter \cup
       {Append(x[1], [block |-> x[2],
                      args |-> IF x[3] THEN <<EventArgs(Len(x[1]) + 1)>> ELSE <<>>]) :
          x \in {y \in shorter \X blocks \X BOOLEAN :
                   y[1] = <<>> \/ y[2] > y[1][Len(y[1])].block}}

\* Starting blocks a caller of the proposed getTokenMetadata passes.
FromChoices(h) ==
  {NoBlock} \cup {b \in {0, 1, h - MAX_BLOCK_RANGE, h - PROPOSED_WINDOW, h} : b >= 0 /\ b <= h}

Ops == {"find", "pool", "meta", "metaProposed", "complete", "optimized"}

DefaultPool == CHOOSE p \in Pools : p.lastPrice = 2

\* No launch takes place.
LaunchOff ==
  /\ chainFee = 100
  /\ harness = [initAmountIn |-> <<>>, longReceipts |-> FALSE]
  /\ ln = [LaunchIdle EXCEPT !.calls = MaxLaunches]

\* No upload, workflow or classification takes place.
FlowOff ==
  /\ up = [UploadIdle EXCEPT !.pc = "off"]
  /\ wf = [WorkflowIdle EXCEPT !.pc = "off"]
  /\ cl = ClassifyIdle

\* No token-info call takes place.
ReaderOff ==
  /\ head = 0
  /\ chainEvents = <<>>
  /\ chainPool = DefaultPool
  /\ fs = [t \in Tasks |-> FindIdle(0)]
  /\ rd = ReaderStart("off", NoBlock)

\* One token-info entry point is called on some chain.
Init ==
  /\ LaunchOff
  /\ FlowOff
  /\ \E op \in Ops, h \in Grid :
       /\ head = h
       /\ \/ /\ op \in {"find", "optimized"}
             /\ \E k \in KChoices(h) :
                  /\ fs = [t \in Tasks |->
                             IF t = 1 THEN [FindIdle(k) EXCEPT !.pc = "code"]
                             ELSE FindIdle(0)]
                  /\ chainEvents \in
                       IF op = "optimized" /\ k <= h
                         THEN {<<>>, <<[block |-> k, args |-> <<EventArgs(1)>>]>>}
                         ELSE {<<>>}
             /\ chainPool = DefaultPool
             /\ rd = ReaderStart(op, NoBlock)
          \/ /\ op \in {"pool", "meta", "metaProposed", "complete"}
             /\ fs = [t \in Tasks |-> FindIdle(0)]
             /\ chainEvents \in
                  IF op = "pool" THEN {<<>>} ELSE EventLists(MaxEvents, EventBlocks(h))
             /\ chainPool \in IF op \in {"pool", "complete"} THEN Pools ELSE {DefaultPool}
             /\ \E fromArg \in IF op = "metaProposed" THEN FromChoices(h) ELSE {NoBlock} :
                  rd = ReaderStart(op, fromArg)

Next ==
  \/ \E t \in Tasks : FindNext(t)
  \/ ReaderNext

Spec == Init /\ [][Next]_vars

\* Pools with every pair of virtual reserves up to MaxReserve.
ReservePools ==
  {[DefaultPool EXCEPT !.virtualEthReserve = e, !.virtualTokenReserve = v] :
     e \in 0..MaxReserve, v \in 0..MaxReserve}

\* Either getTokenPoolInfo is called, again and again while the pool changes,
\* or calculateCurrentPrice is called on some pool.
InitPool ==
  /\ LaunchOff
  /\ FlowOff
  /\ head = 0
  /\ chainEvents = <<>>
  /\ fs = [t \in Tasks |-> FindIdle(0)]
  /\ \/ /\ chainPool \in Pools
        /\ rd = ReaderStart("pool", NoBlock)
     \/ /\ chainPool \in ReservePools
        /\ rd = [ReaderStart("price", NoBlock) EXCEPT !.pc = "price"]

SpecPool == InitPool /\ [][PoolNext]_vars

\* findTokenCreationBlock is called on its own.
InitSearch == Init /\ rd.op = "find"

SearchNext == \E t \in Tasks : FindNext(t)

\* The code's scheduling: a call that awaits the provider is resumed, with an
\* answer or with an error.
SpecSearchFair == InitSearch /\ [][SearchNext]_vars /\ WF_vars(SearchNext)

\* Two calls of findTokenCreationBlock are in progress at once, for the same
\* or for different addresses, on a chain of height at most SmallMax.
InitConcurrent ==
  /\ LaunchOff
  /\ FlowOff
  /\ chainEvents = <<>>
  /\ chainPool = DefaultPool
  /\ rd = ReaderStart("off", NoBlock)
  /\ \E h \in 0..SmallMax :
       /\ head = h
       /\ \E k1 \in KChoices(h), k2 \in KChoices(h) :
            fs = [t \in Tasks |->
                    [FindIdle(IF t = 1 THEN k1 ELSE k2) EXCEPT !.pc = "code"]]

ConcurrentNext == \E t \in Tasks : FindNext(t)

SpecConcurrent == InitConcurrent /\ [][ConcurrentNext]_vars

\* createTokenOnContract is called up to MaxLaunches times with some amount
\* string; receipts carry at most one log.
InitLaunch ==
  /\ ReaderOff
  /\ FlowOff
  /\ chainFee \in Fees
  /\ \E amount \in AmountStrings :
       harness = [initAmountIn |-> amount, longReceipts |-> FALSE]
  /\ ln = LaunchIdle

SpecLaunch == InitLaunch /\ [][LaunchNext]_vars

\* createTokenOnContract is called with initAmountIn "0.1" and is answered
\* with any receipt of up to MaxLogs logs.
InitExtract ==
  /\ ReaderOff
  /\ FlowOff
  /\ chainFee \in Fees
  /\ harness = [initAmountIn |-> <<"0", ".", "1">>, longReceipts |-> TRUE]
  /\ ln = LaunchIdle

SpecExtract == InitExtract /\ [][LaunchNext]_vars

\* The standalone snippet is called with initAmountIn "0.1"; the transaction
\* is mined with any receipt of up to MaxLogs logs.
InitSnippet == InitExtract

SpecSnippet == InitSnippet /\ [][SnippetNext]_vars

\* One of: a raw error is handed to the two parsers; uploadImageToIPFS is
\* called on its own; createTokenWithImage is called.
InitFlow ==
  /\ ReaderOff
  /\ ln = LaunchIdle
  /\ \/ /\ cl \in {[ClassifyIdle EXCEPT !.pc = "input", !.error = e] : e \in RawErrors}
        /\ up = [UploadIdle EXCEPT !.pc = "off"]
        /\ wf = [WorkflowIdle EXCEPT !.pc = "off"]
        /\ chainFee = 100
        /\ harness = [initAmountIn |-> <<>>, longReceipts |-> FALSE]
     \/ /\ cl = ClassifyIdle
        /\ up = UploadIdle
        /\ wf = [WorkflowIdle EXCEPT !.pc = "off"]
        /\ chainFee = 100
        /\ harness = [initAmountIn |-> <<>>, longReceipts |-> FALSE]
     \/ /\ cl = ClassifyIdle
        /\ up = [UploadIdle EXCEPT !.pc = "off"]
        /\ wf = WorkflowIdle
        /\ chainFee \in Fees
        /\ \E amount \in {<<"0", ".", "1">>, <<"x">>} :
             harness = [initAmountIn |-> amount, longReceipts |-> FALSE]

SpecFlow == InitFlow /\ [][FlowNext]_vars

(***************************************************************************)
(* Properties                                                              *)
(***************************************************************************)
\* C1: against an oracle with code absent below K and present from K on
\* (0 <= K <= latest block) and with no failing call, findTokenCreationBlock
\* ends by returning exactly K.
C1_LocatorReturnsCreationBlock ==
  \A t \in Tasks :
    (fs[t].pc \in {"done", "failed"} /\ fs[t].nfail = 0 /\ fs[t].K <= head)
      => (fs[t].pc = "done" /\ fs[t].found = fs[t].K)

\* A search over more than LOOKBACK blocks returned a creation block that is
\* neither the first nor the last block, with no failure on the way.
C1_Witness ==
  /\ fs[1].pc = "done"
  /\ fs[1].nfail = 0
  /\ head > LOOKBACK
  /\ fs[1].K > 0
  /\ fs[1].K < head
  /\ fs[1].found = fs[1].K
  /\ fs[1].probes > 10

\* C2: every event-log query issued by getTokenMetadata spans at most
\* MAX_BLOCK_RANGE blocks between its fromBlock and its toBlock.
C2_QueriesWithinBlockRange ==
  (rd.op \in {"meta", "complete", "optimized"})
    => \A i \in 1..Len(rd.queries) :
         rd.queries[i].to - rd.queries[i].from <= MAX_BLOCK_RANGE

\* The range [a, b] a metadata read is asked to cover: from the starting
\* block (given, or the default) up to the current block.
RequestedFrom(r) ==
  IF UsesProposed(r)
    THEN (IF r.fromArg = NoBlock THEN Max(0, r.currentBlock - PROPOSED_WINDOW)
          ELSE r.fromArg)
    ELSE Max(0, r.currentBlock - LOOKBACK)

\* C3: for a requested range [a, b] with b - a > MAX_BLOCK_RANGE the scan
\* issues only queries of at most MAX_BLOCK_RANGE blocks and obtains exactly
\* the events of [a, b].
C3_ChunkedScanEqualsUnchunked ==
  (rd.scanned /\ rd.currentBlock - RequestedFrom(rd) > MAX_BLOCK_RANGE)
    => /\ \A i \in 1..Len(rd.queries) :
            rd.queries[i].to - rd.queries[i].from <= MAX_BLOCK_RANGE
       /\ rd.events =
            SelectSeq(chainEvents,
                      LAMBDA e : e.block >= RequestedFrom(rd) /\ e.block <= rd.currentBlock)

\* C4: once getCompleteTokenInfoOptimized has located creation block B, the
\* metadata query that follows starts at B, so that it finds the creation
\* event mined at block B however far B lies behind the current block.
C4_CreationEventFoundFromLocatedBlock ==
  (rd.op = "optimized" /\ rd.scanned)
    => \A i \in 1..Len(chainEvents) :
         chainEvents[i].block = rd.creationBlock
           => \E j \in 1..Len(rd.events) : rd.events[j] = chainEvents[i]

\* C5 as stated: for every non-empty list of matching events the call returns
\* the metadata fields of the last element.
C5_ReturnsLastEventAlways ==
  (rd.scanned /\ Len(rd.events) > 0)
    => LET last == rd.events[Len(rd.events)] IN
       /\ rd.pc = "done"
       /\ last.args # <<>>
       /\ rd.metadata =
            <<[name |-> last.args[1].name, symbol |-> last.args[1].symbol,
               description |-> last.args[1].description,
               extended |-> last.args[1].extended,
               imageUrl |-> last.args[1].tokenUrlImage]>>

\* C5: for a non-empty list of matching events, ascending by block,
\* getTokenMetadata takes the last element, the one with the highest block:
\* it returns that element's fields when the element carries decoded
\* arguments, and fails otherwise; it never returns an earlier event's fields.
C5_ReturnsLastEvent ==
  (rd.scanned /\ Len(rd.events) > 0)
    => LET last == rd.events[Len(rd.events)] IN
       /\ \A i \in 1..Len(rd.events) : rd.events[i].block <= last.block
       /\ IF last.args # <<>>
            THEN /\ rd.pc = "done"
                 /\ rd.metadata =
                      <<[name |-> last.args[1].name, symbol |-> last.args[1].symbol,
                         description |-> last.args[1].description,
                         extended |-> last.args[1].extended,
                         imageUrl |-> last.args[1].tokenUrlImage]>>
            ELSE /\ rd.pc = "failed"
                 /\ rd.err = "NoArgs"
                 /\ rd.metadata = <<>>

\* Two decoded creation events at different blocks were returned and the
\* metadata of the later one came back.
C5_Witness ==
  /\ rd.op = "meta"
  /\ rd.pc = "done"
  /\ Len(rd.events) = 2
  /\ rd.events[1].args # <<>>
  /\ rd.events[2].args # <<>>
  /\ rd.events[1].block < rd.events[2].block
  /\ rd.metadata = <<MetadataOf(EventArgs(2))>>

\* C6: when the scan completes with no matching event, getTokenMetadata
\* throws the not-found error and returns no TokenMetadata.
C6_NoEventsIsNotFound ==
  (rd.scanned /\ Len(rd.events) = 0)
    => /\ rd.pc = "failed"
       /\ rd.err \in {"NoCreationEvent", "NoCreationEventInRange"}
       /\ rd.metadata = <<>>
       /\ rd.result = <<>>

\* The chain holds a creation event, but outside the blocks queried.
C6_Witness ==
  /\ rd.op = "meta"
  /\ rd.scanned
  /\ rd.events = <<>>
  /\ chainEvents # <<>>
  /\ rd.pc = "failed"

\* C7: getCompleteTokenInfo returns a CompleteTokenInfo only when both reads
\* succeeded, and then it holds both; when the pool read fails the call fails
\* with the pool failure and reads no metadata; when the metadata read fails
\* the call fails with the metadata failure; a failed call returns nothing.
C7_NoPartialCompleteInfo ==
  (rd.op = "complete")
    => /\ (rd.result # <<>>)
            => /\ rd.pc = "done"
               /\ rd.poolInfo # <<>> /\ rd.metadata # <<>>
               /\ rd.result[1].poolInfo = rd.poolInfo[1]
               /\ rd.result[1].metadata = rd.metadata[1]
       /\ (rd.pc = "done") => (rd.result # <<>>)
       /\ (rd.pc = "failed")
            => /\ rd.result = <<>>
               /\ rd.err # "none"
               /\ (rd.poolInfo = <<>>) <=> (rd.err = "PoolReadFailed")
               /\ (rd.poolInfo = <<>>) => (rd.queries = <<>> /\ rd.currentBlock = NoBlock)
               /\ rd.metadata = <<>>

\* The pool was read, and then the metadata read failed.
C7_Witness ==
  /\ rd.op = "complete"
  /\ rd.pc = "failed"
  /\ rd.poolInfo # <<>>
  /\ rd.scanned
  /\ rd.err = "NoCreationEvent"

\* The stages of createTokenOnContract, in order.
StageOrder == <<"fee", "submit", "wait", "extract">>

\* The stages run so far are a prefix of the order, a finished call ran all
\* four, and a failed call ran exactly the stages up to the failing one.
StagesWellFormed ==
  /\ Len(ln.stages) <= 4
  /\ \A i \in 1..Len(ln.stages) : ln.stages[i] = StageOrder[i]
  /\ (ln.pc = "done") => (ln.stages = StageOrder)
  /\ (ln.pc = "failed")
       => /\ ln.result = <<>>
          /\ Len(ln.stages) =
               (CASE ln.err \in {"FeeReadFailed", "InvalidAmount"} -> 1
                  [] ln.err \in SubmitErrors -> 2
                  [] ln.err \in WaitErrors -> 3
                  [] OTHER -> 0)
          /\ (ln.err \in {"FeeReadFailed", "InvalidAmount"}) => (ln.tx = <<>>)

\* C8: in every run of createTokenOnContract the stages occur in the order
\* fee read, submit, receipt wait, address extraction, each at most once; a
\* failed stage ends the call in failure and no later stage of that call is
\* run; nothing is submitted when the fee read or the amount parsing fails.
C8_StagesInOrderNoRetry ==
  /\ []StagesWellFormed
  /\ [][(ln.pc = "failed" /\ ln'.calls = ln.calls) => (ln' = ln)]_vars

\* A call ended on an amount that does not parse, having read the fee only.
C8_Witness ==
  /\ ln.pc = "failed"
  /\ ln.err = "InvalidAmount"
  /\ ln.stages = <<"fee">>
  /\ ln.tx = <<>>

\* C9: the value attached to createNewToken is the creation fee read from the
\* contract within the same call plus initAmountIn in base units, at every
\* launch of a sequence between which the fee changes.
C9_ValueIsFreshFeePlusAmount ==
  (ln.tx # <<>>)
    => /\ StrToNat(ln.tx[1].value)
            = ln.feeAtRead + StrToNat(WholePart(ln.initAmountIn)) * Unit
                + StrToNat(SubSeq(FractionPart(ln.initAmountIn) \o <<"0", "0", "0", "0">>,
                                  1, Decimals))
       /\ ln.feeAtRead \in Fees

\* The second launch read a fee other than the one the first had read, and
\* attached it to "0.1" RON.
C9_Witness ==
  /\ ln.calls = 2
  /\ ln.tx # <<>>
  /\ ln.initAmountIn = <<"0", ".", "1">>
  /\ ln.prevFeeAtRead = 250
  /\ ln.feeAtRead = 100
  /\ ln.tx[1].value = NatToStr(100 + Unit \div 10)

\* The second topic of a log is the zero hash.
SecondTopicIsZero(log) ==
  log.hasTopics /\ Len(log.topics) >= 2 /\ log.topics[2] = ZeroHash

C12_WorkflowCompletesWithoutCreationLog ==
  (/\ wf.pc \in {"done", "failed"}
   /\ ln.pc = "done"
   /\ ln.mined
   /\ \A i \in 1..Len(ln.receipt[1]) : ~SecondTopicIsZero(ln.receipt[1][i]))
    => /\ wf.pc = "done"
       /\ wf.err = <<>>
       /\ wf.result # <<>>
       /\ wf.result[1].txHash = ln.result[1].txHash

\* C13: the standalone snippet returns only once the receipt is available, so
\* whenever the mined receipt holds a log whose second topic is the zero hash
\* the returned tokenAddress is the emitting address of the first such log.
C13_SnippetWaitsForReceipt ==
  (ln.pc = "done")
    => /\ ln.mined
       /\ LET logs == ln.receipt[1] IN
          \A i \in 1..Len(logs) :
            (SecondTopicIsZero(logs[i]) /\ \A j \in 1..(i - 1) : ~SecondTopicIsZero(logs[j]))
              => ln.result[1].tokenAddress = <<logs[i].address>>

\* The substrings parseBlockchainError looks for.
BlockchainPatterns ==
  {"insufficient funds", "user rejected", "User denied", "network", "timeout",
   "InsufficientOutput", "InvalidAmountIn", "InvalidTokenMetadata"}

\* C14 as stated: parseBlockchainError gives INSUFFICIENT_FUNDS to every
\* message containing "insufficient funds", USER_REJECTED to every message
\* containing "User denied", and UNKNOWN_ERROR to every message matching none
\* of its patterns.
C14_ClassifiesEveryMessage ==
  (cl.blockchain # <<>>)
    => LET m == MessageOf(cl.error)
           kind == cl.blockchain[1].type
       IN /\ Includes(m, "insufficient funds") => kind = "INSUFFICIENT_FUNDS"
          /\ Includes(m, "User denied") => kind = "USER_REJECTED"
          /\ (\A p \in BlockchainPatterns : ~Includes(m, p)) => kind = "UNKNOWN_ERROR"

\* C14: parseBlockchainError gives INSUFFICIENT_FUNDS to every message
\* containing "insufficient funds", USER_REJECTED to every message containing
\* "User denied" and not "insufficient funds", and UNKNOWN_ERROR to every
\* message matching none of its patterns.
C14_ClassifiesByMessage ==
  (cl.blockchain # <<>>)
    => LET m == MessageOf(cl.error)
           kind == cl.blockchain[1].type
       IN /\ Includes(m, "insufficient funds") => kind = "INSUFFICIENT_FUNDS"
          /\ (Includes(m, "User denied") /\ ~Includes(m, "insufficient funds"))
               => kind = "USER_REJECTED"
          /\ (\A p \in BlockchainPatterns : ~Includes(m, p)) => kind = "UNKNOWN_ERROR"

\* A message with "User denied" followed by "network" was classified as a
\* rejection.
C14_Witness ==
  /\ cl.blockchain # <<>>
  /\ MessageOf(cl.error) = <<"User denied", "network">>
  /\ cl.blockchain[1].type = "USER_REJECTED"

\* C15: when the upload endpoint answers 401 or 403, uploadImageToIPFS fails
\* with a TokenCreationError of kind AUTHENTICATION_ERROR.
C15_UnauthorizedIsAuthenticationError ==
  (up.pc = "failed" /\ up.response \in {401, 403})
    => up.err[1].type = "AUTHENTICATION_ERROR"

\* C16 as stated: parseUploadError returns UPLOAD_FAILED for every error whose
\* status is 413, and uploadImageToIPFS fails with UPLOAD_FAILED when the
\* endpoint answers 413.
C16_Status413AlwaysUploadFailed ==
  /\ (cl.upload # <<>> /\ StatusOf(cl.error) = 413)
       => cl.upload[1].type = "UPLOAD_FAILED"
  /\ (up.pc = "failed" /\ up.response = 413)
       => (up.err[1].tce /\ up.err[1].type = "UPLOAD_FAILED")

\* C16: parseUploadError returns UPLOAD_FAILED for every error whose status is
\* 413 and whose message does not contain "unauthorized", and
\* uploadImageToIPFS fails with UPLOAD_FAILED when the endpoint answers 413.
C16_Status413UploadFailed ==
  /\ (/\ cl.upload # <<>>
      /\ StatusOf(cl.error) = 413
      /\ ~Includes(MessageOf(cl.error), "unauthorized"))
       => cl.upload[1].type = "UPLOAD_FAILED"
  /\ (up.pc = "failed" /\ up.response = 413)
       => (up.err[1].tce /\ up.err[1].type = "UPLOAD_FAILED")

\* An error of status 413 whose message mentions the network was classified
\* as a failed upload.
C16_Witness ==
  /\ cl.upload # <<>>
  /\ StatusOf(cl.error) = 413
  /\ Includes(MessageOf(cl.error), "network")
  /\ cl.upload[1].type = "UPLOAD_FAILED"

\* The taxonomy in its listing order.
TaxonomyOrder ==
  <<"INSUFFICIENT_FUNDS", "USER_REJECTED", "NETWORK_ERROR", "CONTRACT_ERROR",
    "AUTHENTICATION_ERROR", "UPLOAD_FAILED", "UNKNOWN_ERROR">>

\* The test parseBlockchainError makes for a kind; UNKNOWN_ERROR is its default.
BlockchainKindHolds(kind, error) ==
  LET m == MessageOf(error) IN
  CASE kind = "INSUFFICIENT_FUNDS" -> Includes(m, "insufficient funds")
    [] kind = "USER_REJECTED" -> Includes(m, "user rejected") \/ Includes(m, "User denied")
    [] kind = "NETWORK_ERROR" -> Includes(m, "network") \/ Includes(m, "timeout")
    [] kind = "CONTRACT_ERROR" ->
         \/ Includes(m, "InsufficientOutput")
         \/ Includes(m, "InvalidAmountIn")
         \/ Includes(m, "InvalidTokenMetadata")
    [] kind = "UNKNOWN_ERROR" -> TRUE
    [] OTHER -> FALSE

\* The test parseUploadError makes for a kind; UPLOAD_FAILED is its default.
UploadKindHolds(kind, error) ==
  LET m == MessageOf(error)
      status == StatusOf(error)
  IN
  CASE kind = "NETWORK_ERROR" -> Includes(m, "network") \/ status = 0 \/ status >= 500
    [] kind = "AUTHENTICATION_ERROR" ->
         status = 401 \/ status = 403 \/ Includes(m, "unauthorized")
    [] kind = "UPLOAD_FAILED" -> TRUE
    [] OTHER -> FALSE

\* C17: when a raw failure satisfies the tests of several kinds,
\* parseBlockchainError and parseUploadError each return the kind that comes
\* first in the taxonomy's listing order.
C17_FirstKindInTaxonomyOrder ==
  /\ (cl.blockchain # <<>>)
       => \E i \in 1..Len(TaxonomyOrder) :
            /\ cl.blockchain[1].type = TaxonomyOrder[i]
            /\ BlockchainKindHolds(TaxonomyOrder[i], cl.error)
            /\ \A j \in 1..(i - 1) : ~BlockchainKindHolds(TaxonomyOrder[j], cl.error)
  /\ (cl.upload # <<>>)
       => \E i \in 1..Len(TaxonomyOrder) :
            /\ cl.upload[1].type = TaxonomyOrder[i]
            /\ UploadKindHolds(TaxonomyOrder[i], cl.error)
            /\ \A j \in 1..(i - 1) : ~UploadKindHolds(TaxonomyOrder[j], cl.error)

\* C18: an error that is already a TokenCreationError when it reaches the
\* catch block of uploadImageToIPFS or of createTokenWithImage leaves it with
\* its kind and message unchanged.
C18_ClassifiedErrorPassesUnchanged ==
  /\ (up.pc = "failed" /\ up.thrown[1].tce) => up.err = up.thrown
  /\ (wf.pc = "failed" /\ wf.thrown[1].tce) => wf.err = wf.thrown

\* The endpoint answered 401, uploadImageToIPFS threw its UPLOAD_FAILED error,
\* and createTokenWithImage failed with that same error.
C18_Witness ==
  /\ wf.pc = "failed"
  /\ up.pc = "failed"
  /\ up.response = 401
  /\ up.thrown[1].tce
  /\ wf.thrown = up.err
  /\ wf.err[1].type = "UPLOAD_FAILED"
  /\ wf.err[1].message = up.thrown[1].message

\* C19: when the pools_ read reverts or the network call fails,
\* getTokenPoolInfo fails with a classified error of kind CONTRACT_ERROR, not
\* with the provider's own error.
C19_PoolReadFailureIsContractError ==
  (rd.op = "pool" /\ rd.pc = "failed") => rd.err = "CONTRACT_ERROR"

\* C20: if the address has no code at the latest block,
\* findTokenCreationBlock never starts the binary search: no probe is issued,
\* no block is returned, and when getCode answered the call has failed with
\* the not-a-contract error.
C20_NoCodeFailsBeforeSearch ==
  \A t \in Tasks :
    (fs[t].pc # "idle" /\ ~HasCodeAt(fs[t].K, head))
      => /\ fs[t].pc \in {"code", "failed"}
         /\ fs[t].probes = 0
         /\ fs[t].found = NoBlock
         /\ (fs[t].pc = "failed" /\ fs[t].nfail = 0) => fs[t].err = "NotAContract"

\* An address without code on a chain of height 10000 was rejected.
C20_Witness ==
  /\ head = LOOKBACK
  /\ fs[1].K = LOOKBACK + 1
  /\ fs[1].pc = "failed"
  /\ fs[1].err = "NotAContract"
  /\ fs[1].probes = 0

\* C21: a probe that throws never ends findTokenCreationBlock: the step taken
\* is that of a code-absent answer (low becomes mid + 1, high and the found
\* block stay) and the call is still in its loop.
C21_ProbeFailureIsCodeAbsentStep ==
  [][\A t \in Tasks :
       (/\ fs[t].pc = "loop"
        /\ fs'[t].probes = fs[t].probes + 1
        /\ fs'[t].lastOutcome = "error")
         => /\ fs'[t].pc = "loop"
            /\ fs'[t].err = "none"
            /\ fs'[t].low = MidBlock(fs[t].low, fs[t].high) + 1
            /\ fs'[t].high = fs[t].high
            /\ fs'[t].found = fs[t].found]_vars

\* A search in which a probe threw has gone on and returned a block.
C21_Witness ==
  /\ fs[1].pc = "done"
  /\ fs[1].nfail >= 1
  /\ fs[1].probes > fs[1].nfail
  /\ fs[1].found # NoBlock

\* The block a call returns when it runs alone on a chain of height h whose
\* token has code from block k on and whose probes throw at the blocks of
\* failedAt; NoBlock when it finds none.
RECURSIVE RunAlone(_, _, _)
RunAlone(s, k, failedAt) ==
  IF s.low > s.high THEN s.found
  ELSE LET mid == MidBlock(s.low, s.high)
           o == IF mid \in failedAt THEN "error"
                ELSE IF HasCodeAt(k, mid) THEN "present" ELSE "absent"
       IN RunAlone(ProbeStep(s, o), k, failedAt)

SoloResult(t) ==
  RunAlone([low |-> 0, high |-> head, found |-> NoBlock], fs[t].K, fs[t].failedAt)

\* C24: two concurrent invocations of findTokenCreationBlock whose probes
\* interleave in any order each end as they would when run alone against the
\* same oracle, and a step of one invocation leaves the locals of the other
\* untouched.
C24_ConcurrentCallsAsAlone ==
  /\ [](\A t \in Tasks :
          /\ (fs[t].pc = "done") => (fs[t].found = SoloResult(t))
          /\ (fs[t].pc = "failed" /\ fs[t].err = "NoCreationBlock")
               => (SoloResult(t) = NoBlock))
  /\ [][\A t \in Tasks :
          (fs'[t] # fs[t]) => (\A u \in Tasks \ {t} : fs'[u] = fs[u])]_vars

\* The first call has returned its block while the second, searching another
\* address, is between two of its probes.
C24_Witness ==
  /\ fs[1].pc = "done"
  /\ fs[1].probes >= 2
  /\ fs[2].pc = "loop"
  /\ fs[2].probes >= 1
  /\ fs[2].low <= fs[2].high
  /\ fs[1].K # fs[2].K
  /\ fs[1].found = fs[1].K
  /\ fs[2].found # fs[1].found

\* C25 as stated: going into every iteration of the binary search, low..high
\* contains the creation block K, code is absent at low - 1 and code is
\* present at high.
C25_IntervalHoldsCreationBlock ==
  \A t \in Tasks :
    (fs[t].pc = "loop" /\ fs[t].low <= fs[t].high)
      => /\ fs[t].low <= fs[t].K
         /\ fs[t].K <= fs[t].high
         /\ (fs[t].low = 0 \/ ~HasCodeAt(fs[t].K, fs[t].low - 1))
         /\ HasCodeAt(fs[t].K, fs[t].high)

\* C25: going into every iteration of the binary search, code is present at
\* high + 1 (the found block) or high is still the latest block, where code
\* is present, so K <= high + 1; and as long as no probe has thrown, code is
\* absent at low - 1, so K lies in low..high + 1.
C25_IntervalBoundsCreationBlock ==
  \A t \in Tasks :
    (fs[t].pc = "loop" /\ fs[t].low <= fs[t].high)
      => /\ \/ fs[t].high = head /\ fs[t].found = NoBlock /\ HasCodeAt(fs[t].K, head)
            \/ fs[t].found = fs[t].high + 1 /\ HasCodeAt(fs[t].K, fs[t].found)
         /\ fs[t].K <= fs[t].high + 1
         /\ (fs[t].nfail = 0)
              => /\ fs[t].low <= fs[t].K
                 /\ (fs[t].low = 0 \/ ~HasCodeAt(fs[t].K, fs[t].low - 1))

\* An iteration is entered after both ends have moved, with K = high + 1.
C25_Witness ==
  /\ fs[1].pc = "loop"
  /\ fs[1].low <= fs[1].high
  /\ fs[1].low > 0
  /\ fs[1].high < head
  /\ fs[1].nfail = 0
  /\ fs[1].K = fs[1].high + 1

\* floor(log2(n)) for n >= 1.
RECURSIVE Log2Floor(_)
Log2Floor(n) == IF n <= 1 THEN 0 ELSE 1 + Log2Floor(n \div 2)

\* C26: the binary search ends for every oracle, failing probes included:
\* high - low falls at every iteration, the loop is left with low > high, the
\* probes number at most floor(log2(latestBlock + 1)) + 1, and a call in its
\* loop comes to return or throw.
C26_SearchTerminates ==
  /\ [](\A t \in Tasks :
          /\ fs[t].probes <= Log2Floor(head + 1) + 1
          /\ (fs[t].pc = "done" \/ fs[t].err = "NoCreationBlock")
               => (fs[t].low > fs[t].high))
  /\ [][\A t \in Tasks :
          (fs'[t].probes = fs[t].probes + 1)
            => (fs'[t].high - fs'[t].low < fs[t].high - fs[t].low)]_vars
  /\ \A t \in Tasks : (fs[t].pc = "loop") ~> (fs[t].pc \in {"done", "failed"})

\* On a chain of height 10001 the search has used all of its 14 probes, one
\* of them a failing one, and has ended.
C26_Witness ==
  /\ head = LOOKBACK + 1
  /\ fs[1].pc \in {"done", "failed"}
  /\ fs[1].probes = Log2Floor(head + 1) + 1
  /\ fs[1].nfail >= 1
  /\ fs[1].low > fs[1].high

\* C27: under any probe failures, findTokenCreationBlock returns a block only
\* if some probe reported code, and that block is the lowest one a probe
\* reported code for, so it is never below K; if no probe reported code the
\* call fails with 'Could not determine creation block'.
C27_ReturnsLowestReportedBlock ==
  \A t \in Tasks :
    /\ (fs[t].pc = "done")
         => /\ fs[t].presentAt # {}
            /\ fs[t].found \in fs[t].presentAt
            /\ \A b \in fs[t].presentAt : fs[t].found <= b
            /\ fs[t].found >= fs[t].K
    /\ (fs[t].pc \in {"done", "failed"} /\ fs[t].probes > 0 /\ fs[t].presentAt = {})
         => /\ fs[t].pc = "failed"
            /\ fs[t].err = "NoCreationBlock"
            /\ fs[t].found = NoBlock

\* Every probe of a search for a deployed token threw, and the call failed
\* without a block.
C27_Witness ==
  /\ fs[1].pc = "failed"
  /\ fs[1].err = "NoCreationBlock"
  /\ HasCodeAt(fs[1].K, head)
  /\ fs[1].probes >= 2
  /\ fs[1].nfail = fs[1].probes

\* C22: calculateCurrentPrice fails with an error, and returns no price
\* string, for every pool whose virtualTokenReserve is 0, whatever its
\* virtualEthReserve is.
C22_ZeroTokenReserveFails ==
  (rd.op = "price" /\ rd.pc # "price" /\ chainPool.virtualTokenReserve = 0)
    => /\ rd.pc = "failed"
       /\ rd.err # "none"
       /\ rd.result = <<>>

\* The price of a pool with 0 virtual tokens and 0 virtual ETH was asked for
\* and the call threw.
C22_Witness ==
  /\ rd.op = "price"
  /\ rd.pc = "failed"
  /\ rd.poolInfo # <<>>
  /\ rd.poolInfo[1].virtualTokenReserve = 0
  /\ rd.poolInfo[1].virtualEthReserve = 0
  /\ rd.err = "RangeError"

\* C23: each call of getTokenPoolInfo issues exactly one pools_ read and
\* returns the field values the contract holds at that read, whatever an
\* earlier call returned and however the pool changed in between.
C23_PoolReadIsFresh ==
  /\ [](rd.op = "pool"
          => /\ (rd.pc = "pool") => (rd.poolReads = 0)
             /\ (rd.pc \in {"done", "failed"}) => (rd.poolReads = 1))
  /\ [][(rd.op = "pool" /\ rd.pc = "pool" /\ rd'.pc = "done")
          => (rd'.result = <<chainPool>>)]_vars

\* The second call returned a pool other than the one the first call
\* returned.
C23_Witness ==
  /\ rd.op = "pool"
  /\ rd.calls = 2
  /\ rd.pc = "done"
  /\ rd.prevResult # <<>>
  /\ rd.result # rd.prevResult
  /\ rd.result = <<chainPool>>

\* C28: every failure that leaves createTokenWithImage is a
\* TokenCreationError of one kind of the taxonomy that carries the original
\* cause (it is the error the stage raised, or it holds that error as its
\* originalError); a raw error never reaches the caller, and a workflow that
\* returned normally had no failing stage and has a token address.
C28_EveryFailureIsClassified ==
  /\ (wf.pc = "failed")
       => /\ wf.err # <<>>
          /\ wf.err[1].tce
          /\ wf.err[1].type \in TokenCreationErrorType
          /\ \/ wf.err = wf.thrown
             \/ wf.err[1].originalError = wf.thrown
          /\ (up.pc = "failed")
               => \/ wf.err = up.thrown
                  \/ wf.err[1].originalError = up.thrown
          /\ (ln.pc = "failed") => (wf.thrown = <<LaunchRawError(ln.err)>>)
  /\ (wf.pc = "done")
       => /\ wf.err = <<>>
          /\ up.pc = "done"
          /\ ln.pc = "done"
          /\ ln.tokenAddress # <<>>
          /\ wf.result[1].tokenAddress = ln.tokenAddress
  /\ (wf.pc \notin {"off", "idle"} /\ up.pc = "failed") => (wf.pc \in {"upload", "failed"})
  /\ (wf.pc \notin {"off", "idle"} /\ ln.pc = "failed") => (wf.pc \in {"create", "failed"})
  /\ (wf.pc \notin {"off", "idle"} /\ ln.pc = "done" /\ ln.tokenAddress = <<>>)
       => (wf.pc \in {"create", "failed"})

\* The wallet had too little RON at the submit, and the workflow failed with
\* INSUFFICIENT_FUNDS holding the provider's error.
C28_Witness ==
  /\ wf.pc = "failed"
  /\ up.pc = "done"
  /\ ln.pc = "failed"
  /\ ln.err = "insufficient funds"
  /\ ~wf.thrown[1].tce
  /\ wf.err[1].type = "INSUFFICIENT_FUNDS"
  /\ wf.err[1].originalError = wf.thrown

\* C29: in createTokenWithImage the chain is touched only after the upload
\* has returned a URL: while validation or the upload has failed or is still
\* under way no creation fee is read and no createNewToken is submitted, and
\* the URL handed to the contract is the one the upload returned.
C29_UploadBeforeChain ==
  (wf.pc \notin {"off", "idle"})
    => /\ (up.pc # "done") => (ln.pc = "idle" /\ ln.stages = <<>> /\ ln.tx = <<>>)
       /\ (ln.pc # "idle")
            => /\ up.pc = "done"
               /\ up.imageUrl # <<>>
               /\ ln.tokenUrlImage = up.imageUrl[1]
               /\ (ln.tx # <<>>) => (ln.tx[1].tokenUrlImage = up.imageUrl[1])
       /\ (wf.pc = "done") => (wf.result[1].imageUrl = up.imageUrl[1])

\* The upload returned the second URL and createNewToken was submitted with it.
C29_Witness ==
  /\ wf.pc = "create"
  /\ up.pc = "done"
  /\ up.imageUrl = <<"ipfs://b">>
  /\ ln.tx # <<>>
  /\ ln.tx[1].tokenUrlImage = "ipfs://b"
  /\ "submit" \in {ln.stages[i] : i \in 1..Len(ln.stages)}
====
